---- MODULE Spec2Model ----
(***************************************************************************)
(* Support Tickets SLA Analytics (src/app/app.py).                         *)
(*                                                                         *)
(* The program keeps two persisted tables (tickets.parquet, sla.parquet)   *)
(* and serves two uploads and four reports.  Every request handler is one  *)
(* atomic action; the request's input is drawn from a bounded set.         *)
(*                                                                         *)
(* Values.  A cell of a data frame is <<>> (NaN / NaT / None) or <<v>>.    *)
(* A timestamp is a whole number of minutes (the CSV date format has       *)
(* minute resolution).  A float that need not be whole (an SLA mean, a     *)
(* percentage) is a fraction [num, den] with den > 0, or NaN.              *)
(***************************************************************************)
EXTENDS Integers, Sequences, FiniteSets, TLC

VARIABLES
    tickets,    \* TICKETS_PATH: [exists, columns, rows]
    sla,        \* SLA_PATH:     [exists, columns, rows]
    response,   \* what the last request returned (or raised)
    uploaded    \* history: every 'Permanently Closed' row ever uploaded, in order

vars == <<tickets, sla, response, uploaded>>

----------------------------------------------------------------------------
(* Cells *)

Null == <<>>
Some(v) == <<v>>
IsNull(c) == c = <<>>
NotNull(c) == c /= <<>>
Val(c) == c[1]

Max(a, b) == IF a >= b THEN a ELSE b

----------------------------------------------------------------------------
(* Generic sequence helpers *)

RECURSIVE SeqFold(_, _, _)
\* Left fold of Op over the sequence s, starting from acc.
SeqFold(Op(_, _), acc, s) ==
    IF s = <<>> THEN acc ELSE SeqFold(Op, Op(acc, Head(s)), Tail(s))

\* x put into the sorted sequence s behind every element that does not sort
\* after it: the step of a stable sort.
InsertStable(Before(_, _), s, x) ==
    LET later == {i \in 1..Len(s) : Before(x, s[i])}
        pos == IF later = {} THEN Len(s) + 1
               ELSE CHOOSE i \in later : \A j \in later : i <= j
    IN  SubSeq(s, 1, pos - 1) \o <<x>> \o SubSeq(s, pos, Len(s))

\* Stable sort of s; Before(a, b) is "a sorts strictly before b".
StableSort(Before(_, _), s) ==
    LET Step(acc, x) == InsertStable(Before, acc, x)
    IN  SeqFold(Step, <<>>, s)

\* <<F(s[1]), ..., F(s[n])>>
MapSeq(F(_), s) ==
    LET Step(acc, x) == Append(acc, F(x))
    IN  SeqFold(Step, <<>>, s)

\* The elements of the finite set S as a sequence ordered by Rank.
SetToSortedSeq(S, Rank(_)) ==
    LET Pick(acc, i) ==
            LET rest == S \ {acc[j] : j \in 1..Len(acc)}
            IN  Append(acc, CHOOSE x \in rest : \A y \in rest : Rank(x) <= Rank(y))
        RECURSIVE Build(_, _)
        Build(acc, n) == IF n = 0 THEN acc ELSE Build(Pick(acc, n), n - 1)
    IN  Build(<<>>, Cardinality(S))

----------------------------------------------------------------------------
(* Ticket CSV columns *)

EXPECTED_TICKET_COLS ==
    << "Issue key", "Issue id", "Custom field (Severity)", "Status",
       "Custom field (First Response SLA Target Date)",
       "Custom field (First Response SLA Actual Date)",
       "Created", "Updated", "Resolved", "Assignee",
       "Custom field (Environment)", "Custom field (Product)",
       "Summary", "Custom field (CRM Company)", "Custom field (Reopen Count)" >>

REQUIRED_TICKET_COLS ==
    { "Issue key", "Custom field (Severity)", "Status",
      "Custom field (First Response SLA Target Date)",
      "Custom field (First Response SLA Actual Date)",
      "Created", "Resolved", "Assignee",
      "Custom field (Product)", "Custom field (CRM Company)",
      "Custom field (Reopen Count)" }

NORMALIZE_MAP ==
    [ h \in { "Issue key", "Custom field (Severity)", "Status",
              "Custom field (First Response SLA Target Date)",
              "Custom field (First Response SLA Actual Date)",
              "Created", "Updated", "Resolved", "Assignee",
              "Custom field (Environment)", "Custom field (Product)",
              "Summary", "Custom field (CRM Company)",
              "Custom field (Reopen Count)" } |->
        CASE h = "Issue key" -> "issue_key"
          [] h = "Custom field (Severity)" -> "severity"
          [] h = "Status" -> "status"
          [] h = "Custom field (First Response SLA Target Date)" -> "fr_target"
          [] h = "Custom field (First Response SLA Actual Date)" -> "fr_actual"
          [] h = "Created" -> "created"
          [] h = "Updated" -> "updated"
          [] h = "Resolved" -> "resolved"
          [] h = "Assignee" -> "assignee"
          [] h = "Custom field (Environment)" -> "environment"
          [] h = "Custom field (Product)" -> "product"
          [] h = "Summary" -> "summary"
          [] h = "Custom field (CRM Company)" -> "crm_company"
          [] h = "Custom field (Reopen Count)" -> "reopen_count" ]

\* DataFrame.rename(columns=NORMALIZE_MAP): a header the map lacks keeps its name.
Rename(h) == IF h \in DOMAIN NORMALIZE_MAP THEN NORMALIZE_MAP[h] ELSE h

\* The place of a header in Python's ordering of strings (code points), over the
\* headers the program knows: what sorted(missing) orders by.
HeaderOrder ==
    << "Assignee", "Created", "Custom field (CRM Company)",
       "Custom field (Environment)",
       "Custom field (First Response SLA Actual Date)",
       "Custom field (First Response SLA Target Date)",
       "Custom field (Product)", "Custom field (Reopen Count)",
       "Custom field (Severity)", "Issue id", "Issue key", "Resolved",
       "Status", "Summary", "Updated" >>

HeaderRank(h) == CHOOSE i \in 1..Len(HeaderOrder) : HeaderOrder[i] = h

\* The headers of S in the order EXPECTED_TICKET_COLS declares them: list(S)
\* without the sort.
Sorted_Declared(S) ==
    LET Place(h) == CHOOSE i \in 1..Len(EXPECTED_TICKET_COLS) : EXPECTED_TICKET_COLS[i] = h
    IN  SetToSortedSeq(S, Place)

\* sorted(S) for a set of headers.
Sorted(S) == SetToSortedSeq(S, HeaderRank)

DATE_COLS ==
    { "Custom field (First Response SLA Target Date)",
      "Custom field (First Response SLA Actual Date)",
      "Created", "Updated", "Resolved" }

----------------------------------------------------------------------------
(* Text *)

WhiteSpace == {" ", "\t"}

\* str.lower() on the characters file names are written in here.
LowerChar(c) ==
    CASE c = "C" -> "c" [] c = "S" -> "s" [] c = "V" -> "v" [] c = "T" -> "t"
      [] c = "X" -> "x" [] OTHER -> c

Lower(s) == [i \in 1..Len(s) |-> LowerChar(s[i])]

EndsWith(s, suffix) ==
    /\ Len(s) >= Len(suffix)
    /\ SubSeq(s, Len(s) - Len(suffix) + 1, Len(s)) = suffix

\* file.filename.lower().endswith(".csv")
IsCsvName(filename) == EndsWith(Lower(filename), <<".", "c", "s", "v">>)

RECURSIVE LStrip(_)
LStrip(s) == IF s /= <<>> /\ Head(s) \in WhiteSpace THEN LStrip(Tail(s)) ELSE s

RECURSIVE RStrip(_)
RStrip(s) ==
    IF s /= <<>> /\ s[Len(s)] \in WhiteSpace
    THEN RStrip(SubSeq(s, 1, Len(s) - 1)) ELSE s

\* str.strip()
Strip(s) == RStrip(LStrip(s))

RECURSIVE CollapseFrom(_, _)
CollapseFrom(s, inRun) ==
    IF s = <<>> THEN <<>>
    ELSE IF Head(s) \in WhiteSpace
         THEN (IF inRun THEN <<>> ELSE <<" ">>) \o CollapseFrom(Tail(s), TRUE)
         ELSE <<Head(s)>> \o CollapseFrom(Tail(s), FALSE)

\* str.replace(r"\s+", " ", regex=True): every run of whitespace becomes one space.
CollapseSpaces(s) == CollapseFrom(s, FALSE)

\* .astype(str).str.strip().str.replace(r"\s+", " ", regex=True)
NormalizeCompany(s) == CollapseSpaces(Strip(s))

----------------------------------------------------------------------------
(* Raw CSV cells and their coercions *)

\* A date cell is text; fmt says whether it is written as "%d/%b/%y %I:%M %p"
\* ("18/Aug/25 6:00 PM"), and minute is the instant it then denotes.
DateCell(fmt, minute) == [fmt |-> fmt, minute |-> minute]

\* pd.to_datetime(col, format="%d/%b/%y %I:%M %p", errors="coerce")
ToDatetime(cell) == IF cell.fmt = "jira" THEN Some(cell.minute) ELSE Null

\* A cell that should hold a number: numeric says whether its text is one.
NumCell(numeric, n) == [numeric |-> numeric, n |-> n]

\* pd.to_numeric(cell, errors="coerce")
ToNumeric(cell) == IF cell.numeric THEN Some(cell.n) ELSE Null

\* pd.to_numeric(...).fillna(0).astype(int)
ToReopenCount(cell) == IF NotNull(ToNumeric(cell)) THEN ToNumeric(cell) ELSE Some(0)

----------------------------------------------------------------------------
(* upload_tickets *)

(* A table is [exists, columns, rows].  A row is a record with one field per  *)
(* column the program knows; a column the table lacks is Null in every row,   *)
(* as pd.concat leaves it.  The column "Issue id", which NORMALIZE_MAP does   *)
(* not rename, is the field issue_id.                                         *)

NoTable == [exists |-> FALSE, columns |-> {}, rows |-> <<>>]

\* The SLA table before any upload (its rows are a set, see PivotTable).
NoSlaTable == [exists |-> FALSE, columns |-> {}, rows |-> {}]

\* Python's ordering of the issue keys in use.
IssueKeyOrder == <<"SUP-1", "SUP-2">>

IssueKeyRank(k) == CHOOSE i \in 1..Len(IssueKeyOrder) : IssueKeyOrder[i] = k

\* The value of a column the CSV may lack.
Col(columns, h, v) == IF h \in columns THEN v ELSE Null

\* pd.read_csv, the company normalisation, the date parsing and the renaming
\* (lines 74-95, 103) of one CSV row; reopen_count is still the raw cell.
ParseTicketRow(columns, raw) ==
    [issue_key    |-> Some(raw.issue_key),
     issue_id     |-> Col(columns, "Issue id", Some(raw.issue_id)),
     severity     |-> Some(raw.severity),
     status       |-> Some(raw.status),
     fr_target    |-> ToDatetime(raw.fr_target),
     fr_actual    |-> ToDatetime(raw.fr_actual),
     created      |-> ToDatetime(raw.created),
     updated      |-> Col(columns, "Updated", ToDatetime(raw.updated)),
     resolved     |-> ToDatetime(raw.resolved),
     assignee     |-> Some(raw.assignee),
     environment  |-> Col(columns, "Custom field (Environment)", Some(raw.environment)),
     product      |-> Some(raw.product),
     summary      |-> Col(columns, "Summary", Some(raw.summary)),
     crm_company  |-> Some(NormalizeCompany(raw.crm_company)),
     reopen_count |-> raw.reopen_count]

\* The expected headers the CSV has, under their normalised names (line 103).
KeptColumns(columns) ==
    {Rename(EXPECTED_TICKET_COLS[i]) :
        i \in {j \in 1..Len(EXPECTED_TICKET_COLS) : EXPECTED_TICKET_COLS[j] \in columns}}

\* resolved - created in minutes (line 110).
ResolutionMinutes(row) ==
    IF NotNull(row.resolved) /\ NotNull(row.created)
    THEN Some(Val(row.resolved) - Val(row.created))
    ELSE Null

\* Types and derived fields (lines 109-110).
DeriveRow(row) ==
    [issue_key    |-> row.issue_key,
     issue_id     |-> row.issue_id,
     severity     |-> row.severity,
     status       |-> row.status,
     fr_target    |-> row.fr_target,
     fr_actual    |-> row.fr_actual,
     created      |-> row.created,
     updated      |-> row.updated,
     resolved     |-> row.resolved,
     assignee     |-> row.assignee,
     environment  |-> row.environment,
     product      |-> row.product,
     summary      |-> row.summary,
     crm_company  |-> row.crm_company,
     reopen_count |-> ToReopenCount(row.reopen_count),
     resolution_minutes |-> ResolutionMinutes(row)]

\* The status filter left out: every row with a status passes.
IsClosed_AnyStatus(row) == row.status /= Null

\* df["status"].eq("Permanently Closed") (line 106)
IsClosed(row) == row.status = Some("Permanently Closed")

\* The normalised, filtered batch df of lines 103-110.
TicketFrame(req) ==
    LET Parse(raw) == ParseTicketRow(req.columns, raw)
    IN  [columns |-> KeptColumns(req.columns) \cup {"resolution_minutes"},
         rows |-> MapSeq(DeriveRow, SelectSeq(MapSeq(Parse, req.rows), IsClosed))]

\* pd.concat([cur, df], ignore_index=True)
Concat(cur, df) ==
    [columns |-> cur.columns \cup df.columns, rows |-> cur.rows \o df.rows]

\* Ascending order of a timestamp column with na_position="last".
NaLastBefore(a, b) == NotNull(a) /\ (IsNull(b) \/ Val(a) < Val(b))

\* The order of sort_values(["issue_key", "resolved"]).
KeyResolvedBefore(a, b) ==
    LET ka == IssueKeyRank(Val(a.issue_key))
        kb == IssueKeyRank(Val(b.issue_key))
    IN  \/ ka < kb
        \/ ka = kb /\ NaLastBefore(a.resolved, b.resolved)

\* all_.sort_values(["issue_key","resolved"]): a stable (lexsort) sort.
SortValues(rows) == StableSort(KeyResolvedBefore, rows)

\* No deduplication: every row is kept.
DropDuplicates_None(rows) == rows

RECURSIVE DropDuplicatesKeepLast(_)
\* drop_duplicates(["issue_key"], keep="last")
DropDuplicatesKeepLast(rows) ==
    IF rows = <<>> THEN <<>>
    ELSE IF \E j \in 2..Len(rows) : rows[j].issue_key = rows[1].issue_key
         THEN DropDuplicatesKeepLast(Tail(rows))
         ELSE <<rows[1]>> \o DropDuplicatesKeepLast(Tail(rows))

\* Lines 113-115: the table after upserting the frame df into the stored one.
Upsert(cur, df) ==
    LET all_ == Concat(cur, df)
    IN  [exists |-> TRUE,
         columns |-> all_.columns,
         rows |-> DropDuplicatesKeepLast(SortValues(all_.rows))]

\* What upload_tickets does with request req when the stored table is cur:
\* the table it leaves, the response it gives and the batch df it merged.
UploadTicketsResult(cur, req) ==
    IF ~IsCsvName(req.filename)
    THEN [tickets |-> cur, df |-> <<>>,
          response |-> [op |-> "upload_tickets", status |-> 400,
                        error |-> "UnsupportedFileType"]]
    ELSE IF REQUIRED_TICKET_COLS \ req.columns /= {}
    THEN [tickets |-> cur, df |-> <<>>,
          response |-> [op |-> "upload_tickets", status |-> 400,
                        error |-> "MissingColumns",
                        missing |-> Sorted(REQUIRED_TICKET_COLS \ req.columns)]]
    ELSE LET df == TicketFrame(req)
             all_ == Upsert(cur, df)
         IN  [tickets |-> all_, df |-> df.rows,
              response |-> [op |-> "upload_tickets", status |-> 200,
                            tickets_stored |-> Len(all_.rows),
                            new_rows |-> Len(df.rows)]]

\* POST /upload/tickets
upload_tickets(req) ==
    LET r == UploadTicketsResult(tickets, req)
    IN  /\ tickets' = r.tickets
        /\ response' = r.response
        /\ UNCHANGED sla

----------------------------------------------------------------------------
(* Floats that need not be whole: fractions in lowest terms *)

RECURSIVE Gcd(_, _)
Gcd(a, b) == IF b = 0 THEN a ELSE Gcd(b, a % b)

Abs(n) == IF n < 0 THEN -n ELSE n

\* num/den (den > 0) in lowest terms.
Frac(num, den) ==
    LET g == Gcd(Abs(num), den)
    IN  [num |-> num \div g, den |-> den \div g]

Zero == Frac(0, 1)

FracLess(a, b) == a.num * b.den < b.num * a.den

\* n/d rounded to the nearest whole number, halves to the even one.
RoundHalfEven(n, d) ==
    LET q == n \div d
        r == n - q * d
    IN  IF 2 * r < d THEN q
        ELSE IF 2 * r > d THEN q + 1
        ELSE IF q % 2 = 0 THEN q ELSE q + 1

\* Series.round(2) of a float cell (NaN stays NaN).
Round2(c) ==
    IF IsNull(c) THEN Null
    ELSE Some(Frac(RoundHalfEven(Val(c).num * 100, Val(c).den), 100))

\* The mean of a non-empty sequence of whole numbers.
Mean(values) ==
    LET Add(acc, v) == acc + v
    IN  Frac(SeqFold(Add, 0, values), Len(values))

----------------------------------------------------------------------------
(* upload_sla *)

(* An SLA CSV header is a sequence of tokens: words, blanks and digits, so    *)
(* that "Severity 10 Resolution" is <<"Severity", " ", "1", "0", " ",         *)
(* "Resolution">>.  A CSV row is [company, cells], cells a function of the    *)
(* CSV's headers.                                                             *)

CompanyHeader == <<"CRM Company">>

Digits == {"0", "1", "2", "3", "4", "5", "6", "7", "8", "9"}

\* str.lower() on the words SLA headers are written with here.
LowerWord(w) ==
    CASE w \in {"Severity", "SEVERITY", "severity"} -> "severity"
      [] w \in {"First Response", "first response"} -> "first response"
      [] w \in {"Resolution", "RESOLUTION", "resolution"} -> "resolution"
      [] OTHER -> w

RECURSIVE SkipBlanks(_)
\* \s*
SkipBlanks(toks) ==
    IF toks /= <<>> /\ Head(toks) \in WhiteSpace THEN SkipBlanks(Tail(toks)) ELSE toks

\* re.match(r"Severity\s*(\d)\s*(First Response|Resolution)", c, flags=re.I):
\* Null, or the pair of groups <<digit, metric>>.
MatchSlaHeader(c) ==
    IF c = <<>> \/ LowerWord(Head(c)) /= "severity" THEN Null
    ELSE LET a == SkipBlanks(Tail(c))
         IN  IF a = <<>> \/ Head(a) \notin Digits THEN Null
             ELSE LET b == SkipBlanks(Tail(a))
                  IN  IF b = <<>> \/ LowerWord(Head(b)) \notin {"first response", "resolution"}
                      THEN Null
                      ELSE Some(<<Head(a), Head(b)>>)

\* f"Severity {m.group(1)}"
SeverityName(digit) ==
    CASE digit = "0" -> "Severity 0" [] digit = "1" -> "Severity 1"
      [] digit = "2" -> "Severity 2" [] digit = "3" -> "Severity 3"
      [] digit = "4" -> "Severity 4" [] digit = "5" -> "Severity 5"
      [] digit = "6" -> "Severity 6" [] digit = "7" -> "Severity 7"
      [] digit = "8" -> "Severity 8" [] digit = "9" -> "Severity 9"

\* "first_response" if m.group(2).lower().startswith("first") else "resolution"
KindName(metric) ==
    IF LowerWord(metric) = "first response" THEN "first_response" ELSE "resolution"

\* Lines 140-148: the value columns, each with its severity and kind.
SlaCols(columns) ==
    LET IsValueCol(c) == c /= CompanyHeader /\ NotNull(MatchSlaHeader(c))
        Describe(c) == [c |-> c,
                        sev |-> SeverityName(Val(MatchSlaHeader(c))[1]),
                        kind |-> KindName(Val(MatchSlaHeader(c))[2])]
    IN  MapSeq(Describe, SelectSeq(columns, IsValueCol))

\* Lines 157-167: the tidy facts that have a number, in CSV order.
Tidy(rows, cols) ==
    LET RowFacts(acc, row) ==
            LET Fact(col) == [crm_company |-> NormalizeCompany(row.company),
                              severity |-> col.sev, kind |-> col.kind,
                              minutes |-> ToNumeric(row.cells[col.c])]
            IN  acc \o MapSeq(Fact, cols)
        HasMinutes(f) == NotNull(f.minutes)
    IN  SelectSeq(SeqFold(RowFacts, <<>>, rows), HasMinutes)

\* The minutes of the facts of one company, severity and kind, in CSV order.
MinutesOf(tidy, company, sev, kind) ==
    LET Mine(f) == f.crm_company = company /\ f.severity = sev /\ f.kind = kind
        Minutes(f) == Val(f.minutes)
    IN  MapSeq(Minutes, SelectSeq(tidy, Mine))

\* pivot_table's default aggfunc: the mean of the group's values, NaN for none.
Aggregate(values) == IF values = <<>> THEN Null ELSE Some(Mean(values))

\* Lines 168-169: pivot_table(index=["crm_company","severity"], columns="kind",
\* values="minutes").reset_index().  The rows are kept as a set: the index is
\* unique and no reader depends on their order.
PivotTable(tidy) ==
    LET groups == {<<tidy[i].crm_company, tidy[i].severity>> : i \in 1..Len(tidy)}
        kinds == {tidy[i].kind : i \in 1..Len(tidy)}
    IN  [exists |-> TRUE,
         columns |-> {"crm_company", "severity"} \cup kinds,
         rows |-> {[crm_company |-> Some(g[1]),
                    severity |-> Some(g[2]),
                    first_response |-> Aggregate(MinutesOf(tidy, g[1], g[2], "first_response")),
                    resolution |-> Aggregate(MinutesOf(tidy, g[1], g[2], "resolution"))] :
                   g \in groups}]

SlaError(status, error) ==
    [op |-> "upload_sla", status |-> status, error |-> error]

\* What upload_sla can do with request req when the stored table is cur: a set
\* of [sla, response].  It is a single outcome but for a CSV with rows and value
\* columns and not one numeric cell, where pivot_table is given an empty frame:
\* it returns an empty table or raises, by the pandas in use.
UploadSlaResults(cur, req) ==
    IF ~IsCsvName(req.filename)
    THEN {[sla |-> cur, response |-> SlaError(400, "UnsupportedFileType")]}
    ELSE IF \A i \in 1..Len(req.columns) : req.columns[i] /= CompanyHeader
    THEN {[sla |-> cur, response |-> SlaError(400, "MissingColumn")]}
    ELSE IF SlaCols(req.columns) = <<>>
    THEN {[sla |-> cur, response |-> SlaError(400, "NoMatchingColumns")]}
    ELSE IF req.rows = <<>>
    THEN \* pd.DataFrame([]) has no "minutes" column: dropna raises KeyError
         {[sla |-> cur, response |-> SlaError(500, "InternalError")]}
    ELSE LET table == PivotTable(Tidy(req.rows, SlaCols(req.columns)))
             stored == [sla |-> table,
                        response |-> [op |-> "upload_sla", status |-> 200,
                                      companies |-> Cardinality({r.crm_company : r \in table.rows}),
                                      rows |-> Cardinality(table.rows)]]
         IN  IF table.rows = {}
             THEN {stored, [sla |-> cur, response |-> SlaError(500, "InternalError")]}
             ELSE {stored}

\* POST /upload/sla
upload_sla(req) ==
    \E r \in UploadSlaResults(sla, req) :
        /\ sla' = r.sla
        /\ response' = r.response
        /\ UNCHANGED tickets

----------------------------------------------------------------------------
(* _load_joined *)

\* The SLA rows a ticket row merges with on ["crm_company", "severity"].
SlaMatches(s, t) ==
    {r \in s.rows : r.crm_company = t.crm_company /\ r.severity = t.severity}

\* (a <= b) & a.notna() & b.notna() on timestamps (line 183).
FirstResponseWithin(t) ==
    NotNull(t.fr_actual) /\ NotNull(t.fr_target) /\ Val(t.fr_actual) <= Val(t.fr_target)

\* (a - b).dt.total_seconds() / 60.0: NaN when either timestamp is NaT.
MinutesBetween(a, b) ==
    IF NotNull(a) /\ NotNull(b) THEN Some(Val(a) - Val(b)) ELSE Null

\* np.clip(x, 1.0, None) of a fraction cell: NaN stays NaN.
ClipLow1(c) ==
    IF IsNull(c) THEN Null
    ELSE IF Val(c).num < Val(c).den THEN Some(Frac(1, 1)) ELSE c

\* (delta / denom) * 100.0 of fraction cells, NaN if either is; denom > 0.
PercentOf(delta, denom) ==
    IF IsNull(delta) \/ IsNull(denom) THEN Null
    ELSE Some(Frac(Val(delta).num * Val(denom).den * 100,
                   Val(delta).den * Val(denom).num))

\* np.where(delta > 0, (delta / np.clip(ref, 1.0, None)) * 100.0, 0.0)
\* (lines 187-191, 197-201); delta > 0 is False for NaN.
ExceedPct(delta, ref) ==
    IF NotNull(delta) /\ Val(delta).num > 0
    THEN PercentOf(delta, ClipLow1(ref))
    ELSE Some(Zero)

\* A whole number of minutes as a fraction cell.
AsFloat(c) == IF IsNull(c) THEN Null ELSE Some(Frac(Val(c), 1))

\* a - b of fraction cells.
FracMinus(a, b) ==
    IF IsNull(a) \/ IsNull(b) THEN Null
    ELSE Some(Frac(Val(a).num * Val(b).den - Val(b).num * Val(a).den,
                   Val(a).den * Val(b).den))

\* a <= b of fraction cells: False when either is NaN (line 195).
FracLeq(a, b) == NotNull(a) /\ NotNull(b) /\ ~FracLess(Val(b), Val(a))

\* One row of the merged frame with its four computed columns (lines 180-201);
\* m is the SLA row it merged with, or all-NaN SLA columns.
JoinedRow(t, m) ==
    LET delta_fr == AsFloat(MinutesBetween(t.fr_actual, t.fr_target))
        target_fr == AsFloat(MinutesBetween(t.fr_target, t.created))
        minutes == AsFloat(t.resolution_minutes)
        delta_res == FracMinus(minutes, m.resolution)
    IN  [issue_key    |-> t.issue_key,
         issue_id     |-> t.issue_id,
         severity     |-> t.severity,
         status       |-> t.status,
         fr_target    |-> t.fr_target,
         fr_actual    |-> t.fr_actual,
         created      |-> t.created,
         updated      |-> t.updated,
         resolved     |-> t.resolved,
         assignee     |-> t.assignee,
         environment  |-> t.environment,
         product      |-> t.product,
         summary      |-> t.summary,
         crm_company  |-> t.crm_company,
         reopen_count |-> t.reopen_count,
         resolution_minutes |-> t.resolution_minutes,
         first_response |-> m.first_response,
         resolution   |-> m.resolution,
         first_response_within_sla |-> FirstResponseWithin(t),
         first_response_exceed_pct |-> ExceedPct(delta_fr, target_fr),
         resolution_within_sla |-> FracLeq(minutes, m.resolution),
         resolution_exceed_pct |-> ExceedPct(delta_res, m.resolution)]

NoSla == [first_response |-> Null, resolution |-> Null]

\* t.merge(s, how="left", on=["crm_company","severity"]): a ticket row without a
\* match keeps NaN SLA columns.  The SLA index is unique, so a ticket row has at
\* most one match.
Merge(t, s) ==
    LET Join(row) ==
            IF SlaMatches(s, row) = {} THEN JoinedRow(row, NoSla)
            ELSE JoinedRow(row, CHOOSE m \in SlaMatches(s, row) : TRUE)
    IN  MapSeq(Join, t.rows)

\* _load_joined refusing only when neither table is stored.
LoadJoinedStatus_Either(t, s) ==
    IF ~(t.exists \/ s.exists) THEN "DataNotReady"
    ELSE IF "resolution" \notin s.columns THEN "KeyError"
    ELSE "ok"

\* How _load_joined ends: "DataNotReady" (the HTTPException of line 177),
\* "KeyError" (d["resolution"] when the SLA table has no such column) or "ok".
LoadJoinedStatus(t, s) ==
    IF ~(t.exists /\ s.exists) THEN "DataNotReady"
    ELSE IF "resolution" \notin s.columns THEN "KeyError"
    ELSE "ok"

\* The frame _load_joined returns when it returns.
LoadJoined(t, s) == Merge(t, s)

----------------------------------------------------------------------------
(* Reports *)

\* Python's ordering of the assignee and product names in use.
NameOrder == <<"ann", "bob", "crm", "erp">>

NameRank(n) == CHOOSE i \in 1..Len(NameOrder) : NameOrder[i] = n

ReportError(op, status, error) == [op |-> op, status |-> status, error |-> error]

\* The response of a report whose _load_joined raised.
LoadFailure(op, t, s) ==
    IF LoadJoinedStatus(t, s) = "DataNotReady"
    THEN ReportError(op, 400, "DataNotReady")
    ELSE ReportError(op, 500, "InternalError")

\* Ascending order of a float column, NaN last.
FracNaLastBefore(a, b) == NotNull(a) /\ (IsNull(b) \/ FracLess(Val(a), Val(b)))

\* Descending order of a float column, NaN last.
FracDescBefore(a, b) == NotNull(a) /\ (IsNull(b) \/ FracLess(Val(b), Val(a)))

\* groupby(by)["resolution_minutes"].mean(), rounded, sorted by (mean, name)
\* (lines 233-235, 240-242); by is "assignee" or "product".  A group without a
\* single resolution time has the mean NaN; the records go to the JSON encoder
\* as they are.
GroupAverages(d, by) ==
    LET names == {Val(d[i][by]) : i \in 1..Len(d)}
        MinutesIn(n) ==
            LET Mine(row) == row[by] = Some(n) /\ NotNull(row.resolution_minutes)
                Minutes(row) == Val(row.resolution_minutes)
            IN  MapSeq(Minutes, SelectSeq(d, Mine))
        Group(n) == [name |-> n, resolution_minutes |-> Round2(Aggregate(MinutesIn(n)))]
        Before(a, b) ==
            \/ FracNaLastBefore(a.resolution_minutes, b.resolution_minutes)
            \/ a.resolution_minutes = b.resolution_minutes /\ NameRank(a.name) < NameRank(b.name)
    IN  StableSort(Before, MapSeq(Group, SetToSortedSeq(names, NameRank)))

AverageReport(op, by, t, s) ==
    IF LoadJoinedStatus(t, s) /= "ok" THEN LoadFailure(op, t, s)
    ELSE [op |-> op, status |-> 200, body |-> GroupAverages(LoadJoined(t, s), by)]

\* GET /reports/assignee_avg
AssigneeAvgResponse(t, s) == AverageReport("assignee_avg", "assignee", t, s)

\* GET /reports/product_avg
ProductAvgResponse(t, s) == AverageReport("product_avg", "product", t, s)

\* A report of the rows out of compliance on both counts.
IsViolation_Both(row) == ~row.first_response_within_sla /\ ~row.resolution_within_sla

\* (~first_response_within_sla) | (~resolution_within_sla) (line 247)
IsViolation(row) == ~row.first_response_within_sla \/ ~row.resolution_within_sla

\* The columns a violations record carries, the percentages rounded (249-260).
ViolationRecord(row) ==
    [issue_key |-> row.issue_key, created |-> row.created,
     assignee |-> row.assignee, product |-> row.product,
     reopen_count |-> row.reopen_count,
     first_response_within_sla |-> row.first_response_within_sla,
     first_response_exceed_pct |-> Round2(row.first_response_exceed_pct),
     resolution_within_sla |-> row.resolution_within_sla,
     resolution_exceed_pct |-> Round2(row.resolution_exceed_pct)]

\* sort_values(by=[resolution_exceed_pct, first_response_exceed_pct, created],
\* ascending=[False, False, True], na_position="last") (lines 263-267).
ViolationBefore(a, b) ==
    \/ FracDescBefore(a.resolution_exceed_pct, b.resolution_exceed_pct)
    \/ /\ a.resolution_exceed_pct = b.resolution_exceed_pct
       /\ \/ FracDescBefore(a.first_response_exceed_pct, b.first_response_exceed_pct)
          \/ /\ a.first_response_exceed_pct = b.first_response_exceed_pct
             /\ NaLastBefore(a.created, b.created)

\* GET /reports/violations
ViolationsResponse(t, s) ==
    IF LoadJoinedStatus(t, s) /= "ok" THEN LoadFailure("violations", t, s)
    ELSE [op |-> "violations", status |-> 200,
          body |-> StableSort(ViolationBefore,
                              MapSeq(ViolationRecord, SelectSeq(LoadJoined(t, s), IsViolation)))]

\* d["reopen_count"] > 1 (line 274)
IsReopened(row) == Val(row.reopen_count) > 1

\* The columns a reopens record carries, the percentages rounded (275-285).
ReopenRecord(row) ==
    [reopen_count |-> row.reopen_count, summary |-> row.summary,
     issue_key |-> row.issue_key, created |-> row.created,
     assignee |-> row.assignee, product |-> row.product,
     first_response_exceed_pct |-> Round2(row.first_response_exceed_pct),
     resolution_exceed_pct |-> Round2(row.resolution_exceed_pct)]

\* sort_values([reopen_count, resolution_exceed_pct, first_response_exceed_pct],
\* ascending=[False, False, False]) (lines 279-282), on the unrounded columns.
ReopenBefore(a, b) ==
    \/ Val(a.reopen_count) > Val(b.reopen_count)
    \/ /\ a.reopen_count = b.reopen_count
       /\ \/ FracDescBefore(a.resolution_exceed_pct, b.resolution_exceed_pct)
          \/ /\ a.resolution_exceed_pct = b.resolution_exceed_pct
             /\ FracDescBefore(a.first_response_exceed_pct, b.first_response_exceed_pct)

\* GET /reports/reopens; r[cols] raises KeyError when the ticket table has no
\* "summary" column (Summary is not a required header).
ReopensResponse(t, s) ==
    IF LoadJoinedStatus(t, s) /= "ok" THEN LoadFailure("reopens", t, s)
    ELSE IF "summary" \notin t.columns THEN ReportError("reopens", 500, "InternalError")
    ELSE [op |-> "reopens", status |-> 200,
          body |-> MapSeq(ReopenRecord,
                          StableSort(ReopenBefore, SelectSeq(LoadJoined(t, s), IsReopened)))]

assignee_avg ==
    /\ response' = AssigneeAvgResponse(tickets, sla)
    /\ UNCHANGED <<tickets, sla>>

product_avg ==
    /\ response' = ProductAvgResponse(tickets, sla)
    /\ UNCHANGED <<tickets, sla>>

violations ==
    /\ response' = ViolationsResponse(tickets, sla)
    /\ UNCHANGED <<tickets, sla>>

reopens ==
    /\ response' = ReopensResponse(tickets, sla)
    /\ UNCHANGED <<tickets, sla>>

----------------------------------------------------------------------------
(* Requests *)

MaxBatch == 2       \* rows in one ticket CSV
MaxTime == 2        \* timestamps are minutes 0..MaxTime
MaxUploaded == 3    \* closed rows recorded in the history

CsvName == <<"t", ".", "C", "S", "V">>
XlsName == <<"t", ".", "x", "l", "s">>

ExpectedHeaders == {EXPECTED_TICKET_COLS[i] : i \in 1..Len(EXPECTED_TICKET_COLS)}

IssueKeys == {IssueKeyOrder[i] : i \in 1..Len(IssueKeyOrder)}

Acme == <<"A", "c", "m", "e">>

\* One well-formed CSV row, a field per header; the request sets vary some cells.
BaseRaw ==
    [issue_key    |-> "SUP-1",
     issue_id     |-> "1001",
     severity     |-> "Severity 1",
     status       |-> "Permanently Closed",
     fr_target    |-> DateCell("jira", 1),
     fr_actual    |-> DateCell("jira", 1),
     created      |-> DateCell("jira", 0),
     updated      |-> DateCell("jira", 1),
     resolved     |-> DateCell("jira", 1),
     assignee     |-> "ann",
     environment  |-> "prod",
     product      |-> "crm",
     summary      |-> "login fails",
     crm_company  |-> Acme,
     reopen_count |-> NumCell(TRUE, 0)]

\* A date cell that is not in the expected format.
BadDate == DateCell("iso", 0)

\* A date cell in the expected format for each minute, and one that is not.
DateCells == {DateCell("jira", t) : t \in 0..MaxTime} \cup {BadDate}

\* All CSV bodies of at most n rows drawn from Rows.
Batches(Rows, n) == UNION {[1..m -> Rows] : m \in 0..n}

TicketRequest(filename, columns, rows) ==
    [filename |-> filename, columns |-> columns, rows |-> rows]

\* Two requests that are rejected: not a CSV, and a CSV without two headers.
RejectedRequests ==
    {TicketRequest(XlsName, ExpectedHeaders, <<BaseRaw>>),
     TicketRequest(CsvName, ExpectedHeaders \ {"Resolved", "Assignee"}, <<BaseRaw>>)}

\* Closed rows of SUP-1 that differ in resolution date (two minutes, or none)
\* and assignee, closed rows of SUP-2 with and without a resolution date, and
\* per key one open row that would win the upsert (its resolution date sorts
\* last) were it not filtered out.
UpsertRows ==
    {[BaseRaw EXCEPT !.resolved = r, !.assignee = a] :
        r \in {DateCell("jira", 1), DateCell("jira", 2), BadDate}, a \in {"ann", "bob"}}
    \cup {[BaseRaw EXCEPT !.issue_key = "SUP-2", !.assignee = a] : a \in {"ann", "bob"}}
    \cup {[BaseRaw EXCEPT !.issue_key = k, !.status = st, !.resolved = BadDate,
                          !.assignee = "bob"] :
              k \in IssueKeys, st \in {"Open", "Permanently Closed"}}

UpsertRequests ==
    {TicketRequest(CsvName, ExpectedHeaders, b) : b \in Batches(UpsertRows, MaxBatch)}
    \cup RejectedRequests

HistoryRows == UpsertRows

HistoryRequests ==
    {TicketRequest(CsvName, ExpectedHeaders, b) : b \in Batches(HistoryRows, MaxBatch)}
    \cup RejectedRequests

----------------------------------------------------------------------------
(* Specifications *)

NoResponse == [op |-> "none", status |-> 0]

Init ==
    /\ tickets = NoTable
    /\ sla = NoSlaTable
    /\ response = NoResponse
    /\ uploaded = <<>>

IsRawClosed(raw) == raw.status = "Permanently Closed"

\* upload_tickets, with the closed rows it merged recorded in the history.
UploadTicketsLogged ==
    \E req \in HistoryRequests :
        /\ Len(uploaded) + Len(SelectSeq(req.rows, IsRawClosed)) <= MaxUploaded
        /\ upload_tickets(req)
        /\ uploaded' = uploaded \o UploadTicketsResult(tickets, req).df

NextHistory == UploadTicketsLogged

\* Ticket uploads alone, with their history.
SpecHistory == Init /\ [][NextHistory]_vars

UploadTickets ==
    \E req \in UpsertRequests :
        /\ upload_tickets(req)
        /\ UNCHANGED uploaded

NextUpsert == UploadTickets

\* Ticket uploads alone.
SpecUpsert == Init /\ [][NextUpsert]_vars

----------------------------------------------------------------------------
(* The whole service *)

Beta == <<"B", "e", "t", "a">>

\* Headers a ticket CSV of the main specification may lack: five required ones
\* and the optional Summary.
DroppableHeaders ==
    {"Resolved", "Assignee", "Issue key", "Status", "Created", "Summary"}

\* A second ticket: another key, company and assignee, answered late, reopened twice.
OtherRaw ==
    [BaseRaw EXCEPT !.issue_key = "SUP-2", !.assignee = "bob", !.product = "erp",
                    !.crm_company = Beta, !.fr_actual = DateCell("jira", MaxTime),
                    !.resolved = DateCell("jira", MaxTime),
                    !.reopen_count = NumCell(TRUE, 2)]

MainRows == {BaseRaw, OtherRaw, [BaseRaw EXCEPT !.status = "Open"]}

MainTicketRequests ==
    {TicketRequest(CsvName, ExpectedHeaders \ m, <<BaseRaw>>) : m \in SUBSET DroppableHeaders}
    \cup {TicketRequest(CsvName, ExpectedHeaders, b) : b \in Batches(MainRows, MaxBatch)}
    \cup {TicketRequest(XlsName, ExpectedHeaders \ {"Status"}, <<BaseRaw>>)}

Space == " "

Sev1FirstResponse == <<"Severity", Space, "1", Space, "First Response">>
Sev1Resolution == <<"Severity", Space, "1", Space, "Resolution">>
Sev1ResolutionLower == <<"severity", "1", Space, "resolution">>
Sev2Resolution == <<"Severity", Space, "2", Space, "Resolution">>
Sev10Resolution == <<"Severity", Space, "1", "0", Space, "Resolution">>
Notes == <<"Notes">>

SlaRequest(filename, columns, rows) ==
    [filename |-> filename, columns |-> columns, rows |-> rows]

\* A cell that is not a number.
TextCell == NumCell(FALSE, 0)

\* All assignments of a cell from Cells to each of the headers in columns.
CellRows(columns, Cells) ==
    [{columns[i] : i \in 1..Len(columns)} \ {CompanyHeader} -> Cells]

\* All CSV rows over the given columns: a company and a cell per other header.
SlaRows(columns, Companies, Cells) ==
    {[company |-> c, cells |-> cells] : c \in Companies, cells \in CellRows(columns, Cells)}

SlaColumns == <<CompanyHeader, Sev1FirstResponse, Sev1Resolution>>

\* A row of an SLA CSV over SlaColumns: first response within 1 minute.
SlaRow(company, resolution) ==
    [company |-> company,
     cells |-> [h \in {Sev1FirstResponse, Sev1Resolution} |->
                   IF h = Sev1Resolution THEN resolution ELSE NumCell(TRUE, 1)]]

\* SLA CSVs for Acme: one with first-response columns only, one per resolution
\* cell (a number or not), one without rows, and three that are rejected.
MainSlaRequests ==
    {SlaRequest(CsvName, <<CompanyHeader, Sev1FirstResponse>>,
                <<[company |-> Acme, cells |-> [h \in {Sev1FirstResponse} |-> NumCell(TRUE, 1)]]>>)}
    \cup {SlaRequest(CsvName, SlaColumns, <<SlaRow(Acme, c)>>) : c \in {NumCell(TRUE, 1), TextCell}}
    \cup {SlaRequest(CsvName, <<CompanyHeader, Sev1Resolution>>, <<>>),
          SlaRequest(CsvName, <<CompanyHeader, Notes>>, <<[company |-> Acme, cells |-> [h \in {Notes} |-> TextCell]]>>),
          SlaRequest(CsvName, <<Sev1Resolution>>, <<[company |-> Acme, cells |-> [h \in {Sev1Resolution} |-> NumCell(TRUE, 1)]]>>),
          SlaRequest(XlsName, <<CompanyHeader, Sev1Resolution>>, <<>>)}

UploadTicketsMain ==
    \E req \in MainTicketRequests :
        /\ upload_tickets(req)
        /\ UNCHANGED uploaded

UploadSlaMain ==
    \E req \in MainSlaRequests :
        /\ upload_sla(req)
        /\ UNCHANGED uploaded

AssigneeAvg == assignee_avg /\ UNCHANGED uploaded

ProductAvg == product_avg /\ UNCHANGED uploaded

Violations == violations /\ UNCHANGED uploaded

Reopens == reopens /\ UNCHANGED uploaded

Next ==
    \/ UploadTicketsMain
    \/ UploadSlaMain
    \/ AssigneeAvg
    \/ ProductAvg
    \/ Violations
    \/ Reopens

\* The two uploads and the four reports, in any order.
Spec == Init /\ [][Next]_vars

----------------------------------------------------------------------------
(* SLA uploads alone *)

MaxSlaRows == 2     \* rows in one SLA CSV

AcmeSpaced == <<" ", "A", "c", "m", "e", " ">>

\* Header rows with two value columns: a pair of metrics, two spellings of one
\* metric, and one metric for two severities.
SlaHeaderRows ==
    {<<CompanyHeader, Sev1FirstResponse, Sev1Resolution>>,
     <<CompanyHeader, Sev1Resolution, Sev1ResolutionLower>>,
     <<CompanyHeader, Sev1Resolution, Sev2Resolution>>}

SlaCells == {NumCell(TRUE, 1), NumCell(TRUE, 2), TextCell}

\* Rows for Acme under two spellings; the last column holds 1 or no number.
SpelledRows(columns) ==
    {r \in SlaRows(columns, {Acme, AcmeSpaced}, SlaCells) :
        r.cells[columns[Len(columns)]] /= NumCell(TRUE, 2)}

\* CSVs of up to MaxSlaRows rows for Acme under two spellings, CSVs with a row
\* for Acme and one for Beta, and three CSVs that are rejected.
SlaOnlyRequests ==
    UNION {{SlaRequest(CsvName, columns, b) : b \in Batches(SpelledRows(columns), MaxSlaRows)} :
           columns \in SlaHeaderRows}
    \cup UNION {{SlaRequest(CsvName, columns, <<a, b>>) :
                     a \in SlaRows(columns, {Acme}, SlaCells),
                     b \in SlaRows(columns, {Beta}, {NumCell(TRUE, 1)})} :
                columns \in SlaHeaderRows}
    \cup UNION {{SlaRequest(CsvName, columns, <<row>>) :
                     row \in SlaRows(columns, {Acme}, {NumCell(TRUE, 1)})} :
                columns \in {<<CompanyHeader, Sev10Resolution, Notes>>, <<Sev1Resolution>>}}
    \cup {SlaRequest(XlsName, <<CompanyHeader, Sev1Resolution>>, <<>>)}

UploadSla ==
    \E req \in SlaOnlyRequests :
        /\ upload_sla(req)
        /\ UNCHANGED uploaded

NextSla == UploadSla

SpecSla == Init /\ [][NextSla]_vars

----------------------------------------------------------------------------
(* One ticket upload, then SLA uploads and reports *)

\* Tickets of Acme that differ in their four timestamps.
JoinRows ==
    {[BaseRaw EXCEPT !.created = c, !.fr_target = ft, !.fr_actual = fa, !.resolved = r] :
        c \in DateCells, ft \in DateCells, fa \in DateCells, r \in DateCells}

\* A ticket of a company no SLA CSV here names.
BetaRaw == [BaseRaw EXCEPT !.issue_key = "SUP-2", !.crm_company = Beta, !.assignee = "bob"]

JoinTicketRequests ==
    {TicketRequest(CsvName, ExpectedHeaders, <<r>>) : r \in JoinRows}
    \cup {TicketRequest(CsvName, ExpectedHeaders, <<r, BetaRaw>>) : r \in JoinRows}

\* SLA CSVs for Acme: a resolution target from -1 (malformed) to MaxTime or not
\* a number, one with two rows for the company, one for another severity.
JoinSlaRequests ==
    {SlaRequest(CsvName, SlaColumns, <<SlaRow(AcmeSpaced, c)>>) :
        c \in {NumCell(TRUE, v) : v \in -1..MaxTime} \cup {TextCell}}
    \cup {SlaRequest(CsvName, SlaColumns,
                     <<SlaRow(Acme, NumCell(TRUE, 0)), SlaRow(AcmeSpaced, NumCell(TRUE, 1))>>),
          SlaRequest(CsvName, <<CompanyHeader, Sev2Resolution>>,
                     <<[company |-> Acme, cells |-> [h \in {Sev2Resolution} |-> NumCell(TRUE, 1)]]>>)}

\* The first ticket upload onto the empty store.
UploadTicketsOnce ==
    \E req \in JoinTicketRequests :
        /\ ~tickets.exists
        /\ upload_tickets(req)
        /\ UNCHANGED uploaded

UploadSlaJoin ==
    \E req \in JoinSlaRequests :
        /\ upload_sla(req)
        /\ UNCHANGED uploaded

NextJoin ==
    \/ UploadTicketsOnce
    \/ UploadSlaJoin
    \/ AssigneeAvg
    \/ ProductAvg
    \/ Violations
    \/ Reopens

SpecJoin == Init /\ [][NextJoin]_vars

----------------------------------------------------------------------------
(* Claims about upload_tickets *)

\* The stored rows with issue key k.
StoredFor(table, k) ==
    LET HasKey(row) == row.issue_key = Some(k)
    IN  SelectSeq(table.rows, HasKey)

\* The uploaded closed rows with issue key k, in upload order.
UploadedFor(k) ==
    LET HasKey(row) == row.issue_key = Some(k)
    IN  SelectSeq(uploaded, HasKey)

\* Of a non-empty sequence h of rows: the one with the greatest resolved
\* timestamp, the most recently uploaded of them when several have it; a row
\* with no resolved timestamp only when none has one.
LatestResolved(h) ==
    LET real == {i \in 1..Len(h) : NotNull(h[i].resolved)}
        top == {i \in real : \A j \in real : Val(h[j].resolved) <= Val(h[i].resolved)}
        cand == IF real = {} THEN 1..Len(h) ELSE top
    IN  h[CHOOSE i \in cand : \A j \in cand : j <= i]

\* C1: after any sequence of uploads the table holds at most one row per issue
\* key, and that row is the latest-resolved 'Permanently Closed' row ever
\* uploaded for the key (the most recent upload among equals); a row with a real
\* resolved timestamp is never displaced by one whose resolved is null.
C1_LatestResolvedWins ==
    \A k \in IssueKeys :
        /\ Len(StoredFor(tickets, k)) <= 1
        /\ UploadedFor(k) = <<>> => StoredFor(tickets, k) = <<>>
        /\ UploadedFor(k) /= <<>> => StoredFor(tickets, k) = <<LatestResolved(UploadedFor(k))>>

\* The part of C1 the code keeps: one row per key, and among rows that all have
\* a resolved timestamp the latest wins.
C1_Holds_WithoutNulls ==
    \A k \in IssueKeys :
        /\ Len(StoredFor(tickets, k)) <= 1
        /\ (UploadedFor(k) /= <<>> /\ \A i \in 1..Len(UploadedFor(k)) : NotNull(UploadedFor(k)[i].resolved))
              => StoredFor(tickets, k) = <<LatestResolved(UploadedFor(k))>>

\* Request req has a row for issue key k, and none of them is closed.
OnlyOpenRowsFor(req, k) ==
    /\ \E i \in 1..Len(req.rows) : req.rows[i].issue_key = k
    /\ \A i \in 1..Len(req.rows) :
          req.rows[i].issue_key = k => req.rows[i].status /= "Permanently Closed"

\* C2: no stored row has a status other than 'Permanently Closed', and an upload
\* whose rows for an already stored issue key are all non-closed leaves the
\* stored row of that key unchanged.
C2_OnlyClosedStored ==
    /\ \A i \in 1..Len(tickets.rows) : tickets.rows[i].status = Some("Permanently Closed")
    /\ \A req \in UpsertRequests : \A k \in IssueKeys :
          (OnlyOpenRowsFor(req, k) /\ StoredFor(tickets, k) /= <<>>)
             => StoredFor(UploadTicketsResult(tickets, req).tickets, k) = StoredFor(tickets, k)

\* An accepted upload that carried no closed row has just left a non-empty table
\* as it was: some request with only open rows for a stored key does exactly that.
C2_Witness ==
    /\ response.op = "upload_tickets" /\ response.status = 200
    /\ response.new_rows = 0 /\ response.tickets_stored >= 1
    /\ \E req \in UpsertRequests : \E k \in IssueKeys :
          /\ OnlyOpenRowsFor(req, k) /\ StoredFor(tickets, k) /= <<>>
          /\ Len(req.rows) = MaxBatch
          /\ UploadTicketsResult(tickets, req).response = response

\* C3: uploading a batch a second time leaves the table as the first upload left
\* it, whatever the table held before and also when the batch repeats a key.
C3_UploadIdempotent ==
    \A req \in UpsertRequests :
        LET once == UploadTicketsResult(tickets, req).tickets
        IN  UploadTicketsResult(once, req).tickets = once

\* Two closed rows of one key with the same resolved timestamp and different
\* assignees were uploaded in one batch onto a table, and uploading that batch
\* again changes nothing.
C3_Witness ==
    /\ response.op = "upload_tickets" /\ response.status = 200
    /\ response.new_rows = 2 /\ response.tickets_stored = 2
    /\ \E req \in UpsertRequests :
          /\ Len(req.rows) = 2
          /\ req.rows[1].issue_key = req.rows[2].issue_key
          /\ req.rows[1].resolved = req.rows[2].resolved
          /\ req.rows[1].assignee /= req.rows[2].assignee
          /\ IsRawClosed(req.rows[1]) /\ IsRawClosed(req.rows[2])
          /\ StoredFor(tickets, req.rows[1].issue_key)[1].assignee = Some(req.rows[2].assignee)
          /\ UploadTicketsResult(tickets, req).tickets = tickets
          /\ UploadTicketsResult(tickets, req).response = response

----------------------------------------------------------------------------
(* Claims about rejected uploads and reports *)

ReportOps == {"assignee_avg", "product_avg", "violations", "reopens"}

\* The sequence names lists exactly the headers of the set S, in Python's order.
IsSortedListOf(names, S) ==
    /\ Len(names) = Cardinality(S)
    /\ {names[i] : i \in 1..Len(names)} = S
    /\ \A i \in 1..Len(names) : \A j \in 1..Len(names) :
          i < j => HeaderRank(names[i]) < HeaderRank(names[j])

\* A rejected ticket upload changes neither table.
RejectedUploadKeepsTables ==
    (response'.op = "upload_tickets" /\ response'.status = 400)
       => (tickets' = tickets /\ sla' = sla)

\* C4: a ticket CSV that lacks required headers is rejected with MissingColumns
\* carrying exactly the missing required headers in sorted order, and the
\* rejected upload leaves the ticket table and the SLA table unchanged.
C4_MissingColumnsRejected ==
    /\ [](\A req \in MainTicketRequests :
             (IsCsvName(req.filename) /\ REQUIRED_TICKET_COLS \ req.columns /= {})
                => LET r == UploadTicketsResult(tickets, req)
                   IN  /\ r.response.status = 400
                       /\ r.response.error = "MissingColumns"
                       /\ IsSortedListOf(r.response.missing, REQUIRED_TICKET_COLS \ req.columns)
                       /\ r.tickets = tickets)
    /\ [][RejectedUploadKeepsTables]_vars

\* An upload lacking at least three required headers was rejected while both
\* tables were stored.
C4_Witness ==
    /\ response.op = "upload_tickets" /\ response.status = 400
    /\ response.error = "MissingColumns"
    /\ Len(response.missing) >= 3
    /\ tickets.exists /\ tickets.rows /= <<>> /\ sla.exists

\* A report request changes neither table, and fails with DataNotReady when a
\* table is not stored.
ReportStep ==
    response'.op \in ReportOps
       => /\ tickets' = tickets /\ sla' = sla
          /\ ~(tickets.exists /\ sla.exists)
                => (response'.status = 400 /\ response'.error = "DataNotReady")

\* C5: each of the four reports fails with DataNotReady unless both tables have
\* been stored by a successful upload, and no report request changes a table.
C5_ReportsReadOnly == [][ReportStep]_vars

\* A report was refused while the ticket table was stored and the SLA table not.
C5_Witness ==
    /\ response.op \in ReportOps
    /\ response.status = 400 /\ response.error = "DataNotReady"
    /\ tickets.exists /\ tickets.rows /= <<>> /\ ~sla.exists

\* C10: once both tables are stored, every report request completes with a
\* computed result.
C10_ReportsNeverFail ==
    (response.op \in ReportOps /\ tickets.exists /\ sla.exists)
       => response.status = 200

----------------------------------------------------------------------------
(* Claims about upload_sla *)

\* The numbers the CSV of req gives for a company, severity and kind.
GivenMinutes(req, company, sev, kind) ==
    {req.rows[i].cells[req.columns[j]].n :
        <<i, j>> \in {p \in (1..Len(req.rows)) \X (1..Len(req.columns)) :
            LET c == req.columns[p[2]]
            IN  /\ c /= CompanyHeader
                /\ NotNull(MatchSlaHeader(c))
                /\ SeverityName(Val(MatchSlaHeader(c))[1]) = sev
                /\ KindName(Val(MatchSlaHeader(c))[2]) = kind
                /\ NormalizeCompany(req.rows[p[1]].company) = company
                /\ req.rows[p[1]].cells[c].numeric}}

\* A stored field agrees with the numbers given: absent when there is none,
\* else one of them.
FieldAgrees(field, given) ==
    IF given = {} THEN IsNull(field)
    ELSE NotNull(field) /\ \E v \in given : Val(field) = Frac(v, 1)

SlaCompanies == {Acme, Beta}
SlaSeverities == {"Severity 1", "Severity 2"}

\* The table holds what the CSV of req gives: one row per company and severity
\* with a number, and in it the numbers given.
SlaTableHolds(table, req) ==
    \A company \in SlaCompanies : \A sev \in SlaSeverities :
        LET rows == {r \in table.rows : r.crm_company = Some(company) /\ r.severity = Some(sev)}
            fr == GivenMinutes(req, company, sev, "first_response")
            res == GivenMinutes(req, company, sev, "resolution")
        IN  /\ Cardinality(rows) = IF fr \cup res = {} THEN 0 ELSE 1
            /\ \A r \in rows : /\ FieldAgrees(r.first_response, fr)
                               /\ FieldAgrees(r.resolution, res)

\* C8: after a successful upload_sla the table has exactly one row per company
\* and severity for which the CSV gave a number, holding the numbers given, also
\* when two CSV rows normalise to one company or two headers map to one metric.
C8_SlaRowsHoldGivenValues ==
    (response.op = "upload_sla" /\ response.status = 200)
       => \A req \in SlaOnlyRequests :
             [sla |-> sla, response |-> response] \in UploadSlaResults(NoSlaTable, req)
                => SlaTableHolds(sla, req)

\* The part of C8 the code keeps: one row per company and severity with a number.
C8_Holds_OneRowPerPair ==
    (response.op = "upload_sla" /\ response.status = 200)
       => \A req \in SlaOnlyRequests :
             [sla |-> sla, response |-> response] \in UploadSlaResults(NoSlaTable, req)
                => \A company \in SlaCompanies : \A sev \in SlaSeverities :
                      Cardinality({r \in sla.rows : r.crm_company = Some(company) /\ r.severity = Some(sev)})
                         = IF GivenMinutes(req, company, sev, "first_response")
                                 \cup GivenMinutes(req, company, sev, "resolution") = {}
                           THEN 0 ELSE 1

----------------------------------------------------------------------------
(* Claims about the joined records and the violations report *)

\* The records _load_joined produces from the stored tables, when it returns.
Joined ==
    IF LoadJoinedStatus(tickets, sla) = "ok" THEN LoadJoined(tickets, sla) ELSE <<>>

\* A percentage that is a number (not NaN) and not negative.
FiniteNonNegative(pct) == NotNull(pct) /\ Val(pct).num >= 0 /\ Val(pct).den > 0

\* C6: in every joined record both exceed percentages are finite and >= 0, also
\* when the reference window or the SLA resolution minutes is zero or negative,
\* and each is exactly 0 when its within-SLA boolean is true.
C6_ExceedPctFiniteNonNegative ==
    \A i \in 1..Len(Joined) :
        LET d == Joined[i]
        IN  /\ FiniteNonNegative(d.first_response_exceed_pct)
            /\ FiniteNonNegative(d.resolution_exceed_pct)
            /\ d.first_response_within_sla => d.first_response_exceed_pct = Some(Zero)
            /\ d.resolution_within_sla => d.resolution_exceed_pct = Some(Zero)

\* The part of C6 the code keeps: a percentage that is a number is >= 0, the
\* resolution percentage is always a number, and each is 0 when within SLA.
C6_Holds_WhenCreatedKnown ==
    \A i \in 1..Len(Joined) :
        LET d == Joined[i]
        IN  /\ FiniteNonNegative(d.resolution_exceed_pct)
            /\ NotNull(d.created) => FiniteNonNegative(d.first_response_exceed_pct)
            /\ NotNull(d.first_response_exceed_pct) => Val(d.first_response_exceed_pct).num >= 0
            /\ d.first_response_within_sla => d.first_response_exceed_pct = Some(Zero)
            /\ d.resolution_within_sla => d.resolution_exceed_pct = Some(Zero)

\* C7: a joined record in which fr_actual, fr_target or created is null has
\* first_response_exceed_pct = 0.
C7_NullTimestampGivesZero ==
    \A i \in 1..Len(Joined) :
        LET d == Joined[i]
        IN  (IsNull(d.fr_actual) \/ IsNull(d.fr_target) \/ IsNull(d.created))
               => d.first_response_exceed_pct = Some(Zero)

\* The part of C7 the code keeps: the percentage is 0 when fr_actual or
\* fr_target is null.
C7_Holds_ForResponseTimestamps ==
    \A i \in 1..Len(Joined) :
        LET d == Joined[i]
        IN  (IsNull(d.fr_actual) \/ IsNull(d.fr_target))
               => d.first_response_exceed_pct = Some(Zero)

\* The SLA resolution minutes that apply to stored ticket t: those of the SLA
\* rows for its company and severity that have them.
SlaResolutionFor(t) ==
    {Val(m.resolution) : m \in {r \in sla.rows :
        r.crm_company = t.crm_company /\ r.severity = t.severity /\ NotNull(r.resolution)}}

\* Stored ticket t is within its resolution SLA: its resolution time and the
\* SLA's are both present and the first is not beyond the second.
ResolvedWithinSla(t) ==
    /\ NotNull(t.resolution_minutes)
    /\ \E target \in SlaResolutionFor(t) :
          Val(t.resolution_minutes) * target.den <= target.num

\* Stored ticket t answered within its first-response target.
AnsweredWithinSla(t) ==
    /\ NotNull(t.fr_actual) /\ NotNull(t.fr_target)
    /\ Val(t.fr_actual) <= Val(t.fr_target)

\* The records of a violations report for stored ticket t.
ReportedFor(body, t) ==
    {i \in 1..Len(body) : body[i].issue_key = t.issue_key}

\* C9: the violations report lists a stored ticket exactly when it missed its
\* first-response target or is not within its resolution SLA (the resolution
\* time and the SLA minutes both present and the first <= the second); a ticket
\* with no SLA row for its company and severity is listed with
\* resolution_exceed_pct = 0.
C9_ViolationsMembership ==
    (response.op = "violations" /\ response.status = 200)
       => \A i \in 1..Len(tickets.rows) :
             LET t == tickets.rows[i]
                 listed == ReportedFor(response.body, t)
             IN  /\ listed /= {} <=> (~AnsweredWithinSla(t) \/ ~ResolvedWithinSla(t))
                 /\ Cardinality(listed) <= 1
                 /\ SlaMatches(sla, t) = {}
                       => /\ listed /= {}
                          /\ \A j \in listed : response.body[j].resolution_exceed_pct = Some(Zero)

\* A violations report over two stored tickets: one answered in time and
\* resolved within its SLA minutes, which the report omits, and one of a company
\* without an SLA row, answered in time, which the report lists with
\* resolution_exceed_pct = 0.
C9_Witness ==
    /\ response.op = "violations" /\ response.status = 200
    /\ Len(tickets.rows) = 2
    /\ \E i \in 1..2 : \E j \in 1..2 :
          /\ AnsweredWithinSla(tickets.rows[i]) /\ ResolvedWithinSla(tickets.rows[i])
          /\ ReportedFor(response.body, tickets.rows[i]) = {}
          /\ SlaMatches(sla, tickets.rows[j]) = {}
          /\ AnsweredWithinSla(tickets.rows[j])
          /\ \E k \in ReportedFor(response.body, tickets.rows[j]) :
                response.body[k].resolution_exceed_pct = Some(Zero)

====
